---- MODULE Spec2Model ----
(***************************************************************************)
(* rust_ffi_example: the Rust wrappers of src/lib.rs around the C library  *)
(* (src/clib.c, built by build.rs): the varint codec, the length-prefixed  *)
(* container of the three compression backends, and the ownership protocol *)
(* of the buffers the C side allocates.                                    *)
(*                                                                         *)
(* Numbers wider than TLC's integers are kept in limbs: a u64 is a tuple   *)
(* of four 16-bit limbs, least significant first; a slice length is a pair *)
(* (pad, explicit bytes) counting pad * 65536 further bytes.               *)
(***************************************************************************)
EXTENDS Integers, Sequences, FiniteSets, TLC

(***************************************************************************)
(* Bounds of the model.                                                    *)
(***************************************************************************)
\* longest text handed to compress, in bytes
MaxTextLen == 3
\* longest raw byte sequence handed directly to decompress
MaxRawLen == 3
\* longest run of extra bytes appended to an encoded varint
MaxExtra == 2
\* longest run of continuation bytes handed directly to decode_varint
MaxContRun == 12

(***************************************************************************)
(* Bytes and sequences.                                                    *)
(***************************************************************************)
RECURSIVE SeqsUpTo(_, _)
SeqsUpTo(S, n) ==
    IF n = 0 THEN {<<>>}
    ELSE LET shorter == SeqsUpTo(S, n - 1)
         IN  shorter \cup {Append(s, x) : s \in {t \in shorter : Len(t) = n - 1}, x \in S}

Repeat(b, n) == [i \in 1..n |-> b]

\* the sum of the elements lo..hi, by halves
RECURSIVE SumRange(_, _, _)
SumRange(s, lo, hi) ==
    IF lo > hi THEN 0
    ELSE IF lo = hi THEN s[lo]
    ELSE SumRange(s, lo, (lo + hi) \div 2) + SumRange(s, (lo + hi) \div 2 + 1, hi)

SumSeq(s) == SumRange(s, 1, Len(s))

Contains(s, b) == \E i \in 1..Len(s) : s[i] = b

Drop(s, n) == SubSeq(s, n + 1, Len(s))

\* a truncation that keeps everything
TakeAll(s, n) == s

Take(s, n) == SubSeq(s, 1, n)

RECURSIVE Pow2(_)
Pow2(k) == IF k = 0 THEN 1 ELSE 2 * Pow2(k - 1)

(***************************************************************************)
(* u64 arithmetic on 16-bit limbs (c_ulong on the 64-bit targets build.rs  *)
(* supports).                                                              *)
(***************************************************************************)
U64Zero == <<0, 0, 0, 0>>

U64Max == <<65535, 65535, 65535, 65535>>

U64OfSmall(n) == <<n % 65536, n \div 65536, 0, 0>>

\* value & 0x7F
Low7(v) == v[1] % 128

\* value >> 7
Shr7(v) ==
    [i \in 1..4 |->
        (v[i] \div 128) + (IF i < 4 THEN (v[i + 1] % 128) * 512 ELSE 0)]

\* value | (chunk << shift) for a 7-bit chunk whose target bits are still
\* zero in value; bits shifted past bit 63 are lost, as in C
OrShl(v, chunk, shift) ==
    LET q    == shift \div 16
        part == chunk * Pow2(shift % 16)
        lo   == part % 65536
        hi   == part \div 65536
    IN  [i \in 1..4 |->
            IF i = q + 1 THEN v[i] + lo
            ELSE IF i = q + 2 THEN v[i] + hi
            ELSE v[i]]

\* the value as a small integer when it is below 65536, else 65536
\* ("larger than anything this model allocates")
SmallOrHuge(v) == IF v[2] = 0 /\ v[3] = 0 /\ v[4] = 0 THEN v[1] ELSE 65536

(***************************************************************************)
(* The C varint codec (clib.c: encode_varint, decode_varint).              *)
(***************************************************************************)
\* the bytes the encoder emits: low 7 bits first, bit 7 set while more remain
RECURSIVE VarintBytes(_)
VarintBytes(v) ==
    IF Shr7(v) = U64Zero THEN <<Low7(v)>>
    ELSE <<Low7(v) + 128>> \o VarintBytes(Shr7(v))

\* int encode_varint(uint64_t value, char *buffer): writes into the caller's
\* buffer and returns the number of bytes written
CEncodeVarint(v, buffer) ==
    LET out == VarintBytes(v)
    IN  [written |-> Len(out),
         buffer  |-> out \o Drop(buffer, Len(out))]

\* the byte at 0-based index i of a slice of explicit bytes followed by
\* padding (zero bytes; the model never makes the decoder depend on them)
ByteAt(data, i) == IF i < Len(data.bytes) THEN data.bytes[i + 1] ELSE 0

\* int decode_varint(const char *buffer, int max_bytes, uint64_t *value):
\* the bytes read, or -1 when the input ends (truncated) or ten bytes pass
\* (overflow) before a byte without the continuation bit
RECURSIVE CDecodeLoop(_, _, _, _)
CDecodeLoop(data, max_bytes, i, acc) ==
    IF i >= max_bytes \/ i >= 10 THEN [read |-> -1, value |-> acc, examined |-> i]
    ELSE LET b   == ByteAt(data, i)
             nxt == OrShl(acc, b % 128, 7 * i)
         IN  IF b < 128 THEN [read |-> i + 1, value |-> nxt, examined |-> i + 1]
             ELSE CDecodeLoop(data, max_bytes, i + 1, nxt)

CDecodeVarint(data, max_bytes) == CDecodeLoop(data, max_bytes, 0, U64Zero)

(***************************************************************************)
(* Results of the Rust wrappers: Result<_, &'static str>.                  *)
(***************************************************************************)
NoValue == U64Zero

Ok(bytes, value, consumed) ==
    [ok |-> TRUE, err |-> "", bytes |-> bytes, value |-> value, consumed |-> consumed]

Err(msg) ==
    [ok |-> FALSE, err |-> msg, bytes |-> <<>>, value |-> NoValue, consumed |-> 0]

NoResult == Err("(pending)")

(***************************************************************************)
(* encode_varint_rust / decode_varint_rust.                                *)
(***************************************************************************)
\* the wrapper without buffer.truncate(bytes_written)
EncodeVarintRustNoTruncate(value) ==
    LET r == CEncodeVarint(value, Repeat(0, 10))
    IN  IF r.written < 0 \/ r.written > 10
        THEN Err("Invalid bytes written by encode_varint")
        ELSE Ok(r.buffer, NoValue, 0)

EncodeVarintRust(value) ==
    LET r == CEncodeVarint(value, Repeat(0, 10))
    IN  IF r.written < 0 \/ r.written > 10
        THEN Err("Invalid bytes written by encode_varint")
        ELSE Ok(Take(r.buffer, r.written), NoValue, 0)

\* the limit of a varint instead of the slice's length
LenAsI32Fixed(data) == 10

\* data.len() as i32: the low 32 bits of the length, read as signed
LenAsI32(data) ==
    LET h == data.pad % 65536
    IN  IF h >= 32768 THEN (h - 65536) * 65536 + Len(data.bytes)
        ELSE h * 65536 + Len(data.bytes)

\* an emptiness test that never fires
IsEmptyNever(data) == FALSE

IsEmpty(data) == data.pad = 0 /\ data.bytes = <<>>

\* the wrapper without the bytes_read < 0 check
DecodeVarintRustUnchecked(data) ==
    IF IsEmpty(data) THEN Err("Empty input data")
    ELSE LET r == CDecodeVarint(data, LenAsI32(data))
         IN  IF r.read > LenAsI32(data) THEN Err("Invalid bytes read count")
             ELSE Ok(<<>>, r.value, r.read)

DecodeVarintRust(data) ==
    IF IsEmpty(data) THEN Err("Empty input data")
    ELSE LET r == CDecodeVarint(data, LenAsI32(data))
         IN  IF r.read < 0 THEN Err("Failed to decode varint")
             ELSE IF r.read > LenAsI32(data) THEN Err("Invalid bytes read count")
             ELSE Ok(<<>>, r.value, r.read)

(***************************************************************************)
(* String::from_utf8 and CString::new.                                     *)
(***************************************************************************)
IsCont(b) == b >= 128 /\ b <= 191

\* the length of the well-formed UTF-8 sequence at the head of s, 0 if none
Utf8Head(s) ==
    LET n  == Len(s)
        b1 == s[1]
        c(i) == n >= i /\ IsCont(s[i])
    IN  IF b1 < 128 THEN 1
        ELSE IF b1 >= 194 /\ b1 <= 223 THEN (IF c(2) THEN 2 ELSE 0)
        ELSE IF b1 = 224 THEN (IF n >= 3 /\ s[2] >= 160 /\ s[2] <= 191 /\ c(3) THEN 3 ELSE 0)
        ELSE IF b1 = 237 THEN (IF n >= 3 /\ s[2] >= 128 /\ s[2] <= 159 /\ c(3) THEN 3 ELSE 0)
        ELSE IF b1 >= 225 /\ b1 <= 239 THEN (IF c(2) /\ c(3) THEN 3 ELSE 0)
        ELSE IF b1 = 240 THEN (IF n >= 4 /\ s[2] >= 144 /\ s[2] <= 191 /\ c(3) /\ c(4) THEN 4 ELSE 0)
        ELSE IF b1 = 244 THEN (IF n >= 4 /\ s[2] >= 128 /\ s[2] <= 143 /\ c(3) /\ c(4) THEN 4 ELSE 0)
        ELSE IF b1 >= 241 /\ b1 <= 243 THEN (IF c(2) /\ c(3) /\ c(4) THEN 4 ELSE 0)
        ELSE 0

\* s is a run of well-formed sequences: a continuation byte never comes
\* first, and each other byte starts a well-formed sequence that ends where
\* the next one starts
ValidUtf8(s) ==
    \A i \in 1..Len(s) :
        IF IsCont(s[i]) THEN i > 1
        ELSE LET k == Utf8Head(Drop(s, i - 1))
             IN  k > 0 /\ (i + k <= Len(s) => ~IsCont(s[i + k]))

\* String::from_utf8_unchecked in its place
StringFromUtf8Unchecked(rust_vec, msg) == Ok(rust_vec, NoValue, 0)

\* String::from_utf8(rust_vec)
StringFromUtf8(rust_vec, msg) ==
    IF ValidUtf8(rust_vec) THEN Ok(rust_vec, NoValue, 0) ELSE Err(msg)

\* CString::new accepting everything
CStringNewLax(s) == TRUE

\* CString::new(s) fails on an interior zero byte
CStringNewOk(s) == ~Contains(s, 0)

(***************************************************************************)
(* The native codecs behind the C library, at their interface: each is a   *)
(* small format with the properties of the real one that the container     *)
(* relies on.  Deflate: a two-byte stream header, a stored block and a     *)
(* checksum trailer; the stream describes its own length, bytes after it   *)
(* are ignored, the output must fit the destination.  Block: LZ4 block     *)
(* sequences (token, literals, offset, match); no magic and no length.     *)
(* Frame: a magic, a content-size field and one raw block; the frame must  *)
(* be the whole input.                                                     *)
(***************************************************************************)
Backends == {"Deflate", "Block", "Frame"}

Adler(bytes) == (1 + SumSeq(bytes)) % 251

DeflateCompress(bytes) == <<120, 156, Len(bytes)>> \o bytes \o <<Adler(bytes)>>

Failed == [ok |-> FALSE, out |-> <<>>]

Done(out) == [ok |-> TRUE, out |-> out]

DeflateUncompress(p, cap) ==
    IF Len(p) < 4 \/ p[1] # 120 \/ p[2] # 156 THEN Failed
    ELSE LET n == p[3]
         IN  IF Len(p) < 4 + n THEN Failed
             ELSE LET body == SubSeq(p, 4, 3 + n)
                  IN  IF p[4 + n] # Adler(body) \/ n > cap THEN Failed
                      ELSE Done(body)

\* the bytes that continue a length field of 15
RECURSIVE BlockLenBytes(_)
BlockLenBytes(n) == IF n >= 255 THEN <<255>> \o BlockLenBytes(n - 255) ELSE <<n>>

\* one run of literals: the token, the rest of a length of 15 or more, the
\* bytes
BlockCompress(bytes) ==
    IF Len(bytes) < 15 THEN <<Len(bytes) * 16>> \o bytes
    ELSE <<240>> \o BlockLenBytes(Len(bytes) - 15) \o bytes

\* a length field of 15 is continued by bytes that add up, the last one being
\* the first below 255
RECURSIVE BlockLenExt(_, _, _)
BlockLenExt(p, pos, acc) ==
    IF pos > Len(p) THEN [ok |-> FALSE, len |-> 0, pos |-> pos]
    ELSE IF p[pos] = 255 THEN BlockLenExt(p, pos + 1, acc + 255)
    ELSE [ok |-> TRUE, len |-> acc + p[pos], pos |-> pos + 1]

BlockReadLen(p, pos, field) ==
    IF field < 15 THEN [ok |-> TRUE, len |-> field, pos |-> pos]
    ELSE BlockLenExt(p, pos, 15)

RECURSIVE BlockCopyMatch(_, _, _)
BlockCopyMatch(out, offset, n) ==
    IF n = 0 THEN out
    ELSE BlockCopyMatch(Append(out, out[Len(out) - offset + 1]), offset, n - 1)

RECURSIVE BlockDecodeFrom(_, _, _, _)
BlockDecodeFrom(p, pos, out, cap) ==
    IF pos > Len(p) THEN Failed
    ELSE LET token == p[pos]
             lit   == BlockReadLen(p, pos + 1, token \div 16)
         IN  IF ~lit.ok \/ lit.pos + lit.len - 1 > Len(p) \/ Len(out) + lit.len > cap
             THEN Failed
             ELSE LET out1 == out \o SubSeq(p, lit.pos, lit.pos + lit.len - 1)
                      pos2 == lit.pos + lit.len
                  IN  IF pos2 > Len(p) THEN Done(out1)
                      ELSE IF pos2 + 1 > Len(p) THEN Failed
                      ELSE LET offset == p[pos2] + 256 * p[pos2 + 1]
                               mat    == BlockReadLen(p, pos2 + 2, token % 16)
                           IN  IF offset = 0 \/ offset > Len(out1) \/ ~mat.ok
                                  \/ Len(out1) + mat.len + 4 > cap
                               THEN Failed
                               ELSE BlockDecodeFrom(p, mat.pos,
                                        BlockCopyMatch(out1, offset, mat.len + 4), cap)

\* LZ4_decompress_safe(src, dst, srcSize, dstCapacity)
BlockDecompress(p, cap) ==
    IF cap = 0 THEN (IF p = <<0>> THEN Done(<<>>) ELSE Failed)
    ELSE IF p = <<>> THEN Failed
    ELSE BlockDecodeFrom(p, 1, <<>>, cap)

FrameCompress(bytes) == <<40, 181, Len(bytes)>> \o bytes

FrameDecompress(p, cap) ==
    IF Len(p) < 3 \/ p[1] # 40 \/ p[2] # 181 THEN Failed
    ELSE IF Len(p) # 3 + p[3] \/ p[3] > cap THEN Failed
    ELSE Done(Drop(p, 3))

RawCompress(B, bytes) ==
    CASE B = "Deflate" -> DeflateCompress(bytes)
      [] B = "Block"   -> BlockCompress(bytes)
      [] B = "Frame"   -> FrameCompress(bytes)

\* the size hint is the destination capacity; for Block, whose format has no
\* length of its own, it is also the length the output must have
RawDecompress(B, payload, hint) ==
    CASE B = "Deflate" -> DeflateUncompress(payload, hint)
      [] B = "Frame"   -> FrameDecompress(payload, hint)
      [] B = "Block"   ->
            LET r == BlockDecompress(payload, hint)
            IN  IF r.ok /\ Len(r.out) = hint THEN r ELSE Failed

(***************************************************************************)
(* The C library's container functions (clib.c): compress_string[_lz4 /    *)
(* _zstd] and decompress_data[_lz4 / _zstd].  A null buffer is failure.    *)
(***************************************************************************)
\* varint(original length) followed by the backend's payload
CCompressString(B, input) ==
    [isNull |-> FALSE,
     bytes  |-> VarintBytes(U64OfSmall(Len(input))) \o RawCompress(B, input),
     events |-> <<"raw_compress">>]

\* header, then payload; a header that does not decode, an empty payload, a
\* length no allocation can satisfy or a payload the backend rejects give null
CDecompressData(B, input) ==
    LET hdr == CDecodeVarint([bytes |-> input, pad |-> 0], Len(input))
    IN  IF hdr.read < 0
        THEN [isNull |-> TRUE, bytes |-> <<>>, events |-> <<"decode_varint">>]
        ELSE LET payload == Drop(input, hdr.read)
                 hint    == SmallOrHuge(hdr.value)
             IN  IF payload = <<>> \/ hint >= 65536
                 THEN [isNull |-> TRUE, bytes |-> <<>>, events |-> <<"decode_varint">>]
                 ELSE LET r == RawDecompress(B, payload, hint)
                      IN  [isNull |-> ~r.ok, bytes |-> r.out,
                           events |-> <<"decode_varint", "raw_decompress">>]

(***************************************************************************)
(* The foreign allocator: NumPtrs addresses, each live or not, with the    *)
(* bytes stored there.                                                     *)
(***************************************************************************)
NumPtrs == 2

Ptrs == 1..NumPtrs

NullPtr == 0

EmptyHeap == [p \in Ptrs |-> [live |-> FALSE, data |-> <<>>]]

LivePtrs(h) == {p \in Ptrs : h[p].live}

\* malloc: the lowest free address, or null when none is left
Malloc(h) ==
    IF LivePtrs(h) = Ptrs THEN NullPtr
    ELSE CHOOSE p \in Ptrs : ~h[p].live /\ \A q \in Ptrs : q < p => h[q].live

\* what slice::from_raw_parts(ptr, len).to_vec() can yield: the stored bytes
\* while the buffer is live; after the free the allocator owns the memory and
\* the read may see anything of that length (here: zero bytes or 0xFF bytes)
ForeignRead(h, ptr, length) ==
    IF ptr = NullPtr THEN {<<>>}
    ELSE IF h[ptr].live THEN {h[ptr].data}
    ELSE {Repeat(0, length), Repeat(255, length)}

\* free: the address is no longer live and its bytes are the allocator's
\* (free(NULL) does nothing)
Free(h, ptr) ==
    IF ptr = NullPtr THEN h ELSE [h EXCEPT ![ptr] = [live |-> FALSE, data |-> <<>>]]

(***************************************************************************)
(* Inputs.                                                                 *)
(***************************************************************************)
\* bytes of texts: NUL, a control character, a letter, and the two bytes of
\* U+00E9
TextBytes == {0, 16, 65, 195, 169}

\* the length from which the header takes two bytes
LongTextLen == 128

\* "A".repeat(length) around that length
LongTexts == {Repeat(65, LongTextLen - 1), Repeat(65, LongTextLen)}

\* &str: well-formed UTF-8 by type
Texts == {s \in SeqsUpTo(TextBytes, MaxTextLen) : ValidUtf8(s)} \cup LongTexts

\* bytes of raw decompress inputs
RawBytes == {0, 1, 10, 16, 128, 255}

\* contents a foreign producer may have compressed: not necessarily text
BinaryContents == SeqsUpTo({65, 255}, 2)

\* 2^k and 2^k - 1 in limbs
U64Pow2(k) == [i \in 1..4 |-> IF i = (k \div 16) + 1 THEN Pow2(k % 16) ELSE 0]

U64Pow2Minus1(k) ==
    [i \in 1..4 |->
        IF i < (k \div 16) + 1 THEN 65535
        ELSE IF i = (k \div 16) + 1 THEN Pow2(k % 16) - 1
        ELSE 0]

Values ==
    {U64Pow2(k) : k \in 0..63} \cup {U64Pow2Minus1(k) : k \in 0..63}
        \cup {U64Max, U64OfSmall(255), U64OfSmall(300), <<1, 1, 1, 1>>}

ExtraBytes == {66, 128, 255}

Extras == SeqsUpTo(ExtraBytes, MaxExtra)

\* further bytes after the explicit ones, in units of 65536 bytes: none, one
\* unit, 2^31 bytes, 2^32 bytes
Pads == {0, 1, 32768, 65536}

ContRuns ==
    {Repeat(c, n) \o t : c \in {128, 255}, n \in 0..MaxContRun,
                         t \in {<<>>, <<0>>, <<1>>, <<127>>}}

\* raw bytes, runs of continuation bytes with or without a terminating byte
\* (headers of 1 to 10 bytes and longer, with nothing or one byte after
\* them), and containers of contents that need not be text
DecompressInputs(B) ==
    SeqsUpTo(RawBytes, MaxRawLen) \cup ContRuns
        \cup {CCompressString(B, c).bytes : c \in BinaryContents}

\* a slice with padding holds at least the eleven bytes a decoder can look at
Slices(byteSeqs) ==
    {[bytes |-> b, pad |-> p] : b \in byteSeqs, p \in Pads}

NoInput == [bytes |-> <<>>, pad |-> 0, value |-> U64Zero]

NoOrigin == [kind |-> "none", data |-> <<>>, n |-> 0]

(***************************************************************************)
(* State.                                                                  *)
(***************************************************************************)
VARIABLES
    op,        \* the wrapper being executed
    backend,   \* its backend
    input,     \* its argument
    pc,        \* where it stands
    cdata,     \* the CompressedData / DecompressedData the C call returned
    rustVec,   \* the Vec<u8> copied from it
    result,    \* what the wrapper returned
    heap,      \* the foreign allocator
    step,      \* its position in BridgeSteps while pc = "bridge"
    log,       \* what the call has done so far
    origin,    \* where the argument came from
    cli,       \* the command-line process around the call, if any
    prev,      \* an earlier call and its result, kept for comparison
    threads    \* the calls of the threads of a host program, one per thread

vars == <<op, backend, input, pc, cdata, rustVec, result, heap, step, log, origin,
          cli, prev, threads>>

NoCData == [buffer |-> NullPtr, length |-> 0]

\* no process: the library is called directly (tests, fuzz targets, benches)
NoCli == [cmd |-> "none", status |-> "none", exit |-> 0, stderr |-> <<>>, written |-> {}]

NoPrev == [op |-> "none", backend |-> "none", input |-> NoInput, result |-> NoResult,
           others |-> FALSE]

Count(l, e) == Cardinality({i \in 1..Len(l) : l[i] = e})

AtRest == pc \in {"idle", "done"}

Idle == pc = "idle" /\ cli = NoCli

\* the caller is a test or fuzz target, not the command line
DirectCaller == cli = NoCli

\* threads of the host program that call the library
NumThreads == 2

Threads == 1..NumThreads

\* a thread that is in no call
IdleThread ==
    [op |-> "none", backend |-> "none", input |-> <<>>, pc |-> "idle",
     cdata |-> NoCData, rustVec |-> <<>>, result |-> NoResult, step |-> 0,
     log |-> <<>>]

Init ==
    /\ threads = [t \in Threads |-> IdleThread]
    /\ op = "none"
    /\ backend = "none"
    /\ input = NoInput
    /\ pc = "idle"
    /\ cdata = NoCData
    /\ rustVec = <<>>
    /\ result = NoResult
    /\ heap = EmptyHeap
    /\ step = 0
    /\ log = <<>>
    /\ origin = NoOrigin
    /\ cli = NoCli
    /\ prev = NoPrev

(***************************************************************************)
(* The wrappers' error messages, by the kind of the error.                 *)
(***************************************************************************)
Msg(B, kind) ==
    CASE kind = "InvalidInput" -> "Failed to create CString, input might contain null bytes"
      [] kind = "CompressFailure" /\ B = "Deflate" -> "Compression failed in C library (null buffer returned)"
      [] kind = "CompressFailure" /\ B = "Block" -> "LZ4 Compression failed in C library (null buffer returned)"
      [] kind = "CompressFailure" /\ B = "Frame" -> "ZSTD Compression failed in C library (null buffer returned)"
      [] kind = "EmptyInput" /\ B = "Deflate" -> "Empty input data"
      [] kind = "EmptyInput" /\ B = "Block" -> "Empty input data for LZ4 decompression"
      [] kind = "EmptyInput" /\ B = "Frame" -> "Empty input data for ZSTD decompression"
      [] kind = "InputTooSmall" /\ B = "Deflate" -> "Input too small for valid compressed data"
      [] kind = "InputTooSmall" /\ B = "Block" -> "Input too small for valid LZ4 compressed data"
      [] kind = "InputTooSmall" /\ B = "Frame" -> "Input too small for valid ZSTD compressed data"
      [] kind = "DecompressFailure" /\ B = "Deflate" -> "Decompression failed"
      [] kind = "DecompressFailure" /\ B = "Block" -> "LZ4 Decompression failed in C library (null buffer returned)"
      [] kind = "DecompressFailure" /\ B = "Frame" -> "ZSTD Decompression failed in C library (null buffer returned)"
      [] kind = "InvalidUtf8" /\ B = "Deflate" -> "Decompressed data is not valid UTF-8"
      [] kind = "InvalidUtf8" /\ B = "Block" -> "LZ4 Decompressed data is not valid UTF-8"
      [] kind = "InvalidUtf8" /\ B = "Frame" -> "ZSTD Decompressed data is not valid UTF-8"

(***************************************************************************)
(* compress_rust_string[_lz4 / _zstd] and decompress_rust_data[_lz4 /      *)
(* _zstd], statement by statement.                                         *)
(***************************************************************************)
\* the early returns of decompress: "" when the input passes
DecompressEntryLax(B, d) ==
    IF d = <<>> THEN "EmptyInput" ELSE ""

DecompressEntry(B, d) ==
    IF d = <<>> THEN "EmptyInput"
    ELSE IF Len(d) < 2 THEN "InputTooSmall"
    ELSE ""

Enter(o, B, d, org, refusal) ==
    /\ op' = o
    /\ backend' = B
    /\ input' = [bytes |-> d, pad |-> 0, value |-> U64Zero]
    /\ origin' = org
    /\ cdata' = NoCData
    /\ rustVec' = <<>>
    /\ step' = 0
    /\ log' = <<>>
    /\ IF refusal = ""
       THEN pc' = "call" /\ result' = NoResult
       ELSE pc' = "done" /\ result' = Err(Msg(B, refusal))
    /\ UNCHANGED heap

CompressRefusal(s) == IF CStringNewOk(s) THEN "" ELSE "InvalidInput"

\* the number of characters instead of the number of bytes
InputLenChars(s) == Cardinality({i \in 1..Len(s) : ~IsCont(s[i])})

\* let input_len = s.len() as c_ulong
InputLen(s) == Len(s)

CompressEnter(B, s) ==
    /\ Idle
    /\ Enter("compress", B, s, NoOrigin, CompressRefusal(s))
    /\ UNCHANGED <<cli, prev, threads>>

StartDecompress(B, d, org) ==
    Enter("decompress", B, d, org, DecompressEntry(B, d))

DecompressEnter(B, d) ==
    /\ Idle
    /\ StartDecompress(B, d, NoOrigin)
    /\ UNCHANGED <<cli, prev, threads>>

\* decompress what compress has just returned
DecompressRoundTrip ==
    /\ pc = "done" /\ op = "compress" /\ result.ok /\ DirectCaller
    /\ StartDecompress(backend, result.bytes,
                       [kind |-> "roundtrip", data |-> input.bytes, n |-> 0])
    /\ UNCHANGED <<cli, prev, threads>>

\* the same with its first two bytes overwritten with 0xFF 0xFF
DecompressCorrupted ==
    /\ pc = "done" /\ op = "compress" /\ result.ok /\ Len(result.bytes) >= 2
    /\ DirectCaller
    /\ StartDecompress(backend, <<255, 255>> \o Drop(result.bytes, 2),
                       [kind |-> "corrupted", data |-> input.bytes, n |-> 0])
    /\ UNCHANGED <<cli, prev, threads>>

\* unsafe { compress_string(..) } / unsafe { decompress_data(..) }
RawCall ==
    /\ pc = "call"
    /\ LET r == IF op = "compress"
                THEN CCompressString(backend, Take(input.bytes, InputLen(input.bytes)))
                ELSE CDecompressData(backend, input.bytes)
           p == IF r.isNull THEN NullPtr ELSE Malloc(heap)
       IN  /\ cdata' = [buffer |-> p, length |-> IF p = NullPtr THEN 0 ELSE Len(r.bytes)]
           /\ heap' = IF p = NullPtr THEN heap
                      ELSE [heap EXCEPT ![p] = [live |-> TRUE, data |-> r.bytes]]
           /\ log' = log \o <<"raw_call">> \o r.events
                         \o (IF p = NullPtr THEN <<>> ELSE <<"alloc">>)
    /\ pc' = "check"
    /\ UNCHANGED <<op, backend, input, rustVec, result, step, origin, cli, prev, threads>>

\* a null check that never fires
NeverNull(cd) == FALSE

BufferIsNull(cd) == cd.buffer = NullPtr

\* the three statements after the null check, misordered or incomplete
BridgeStepsFreeFirst == <<"free", "copy", "finish">>

BridgeStepsNoFree == <<"copy", "finish">>

BridgeStepsFreeTwice == <<"copy", "free", "free", "finish">>

BridgeStepsCopyAgain == <<"copy", "free", "copy", "finish">>

\* to_vec() of the foreign slice, the free call, the return
BridgeSteps == <<"copy", "free", "finish">>

\* a null buffer answered by calling again
OnNullRetry == "call"

\* where a call goes on a null buffer: return Err(..)
OnNull == "done"

\* if buffer.is_null() { return Err(..) }
NullCheck ==
    /\ pc = "check"
    /\ IF BufferIsNull(cdata)
       THEN /\ pc' = OnNull
            /\ step' = 0
            /\ result' = Err(Msg(backend, IF op = "compress" THEN "CompressFailure"
                                          ELSE "DecompressFailure"))
       ELSE /\ pc' = "bridge"
            /\ step' = 1
            /\ result' = result
    /\ UNCHANGED <<op, backend, input, cdata, rustVec, heap, log, origin, cli, prev, threads>>

AtStep(name) == pc = "bridge" /\ BridgeSteps[step] = name

\* slice::from_raw_parts(buffer, length).to_vec()
CopyOut ==
    /\ AtStep("copy")
    /\ rustVec' \in ForeignRead(heap, cdata.buffer, cdata.length)
    /\ log' = Append(log, "copy")
    /\ step' = step + 1
    /\ UNCHANGED <<op, backend, input, pc, cdata, result, heap, origin, cli, prev, threads>>

\* unsafe { free_compressed_data(..) } / unsafe { free_decompressed_data(..) }
Release ==
    /\ AtStep("free")
    /\ heap' = Free(heap, cdata.buffer)
    /\ log' = Append(log, "free")
    /\ step' = step + 1
    /\ UNCHANGED <<op, backend, input, pc, cdata, rustVec, result, origin, cli, prev, threads>>

\* Ok(rust_vec), or String::from_utf8(rust_vec) for decompress
Finish ==
    /\ AtStep("finish")
    /\ result' = IF op = "compress" THEN Ok(rustVec, NoValue, 0)
                 ELSE StringFromUtf8(rustVec, Msg(backend, "InvalidUtf8"))
    /\ pc' = "done"
    /\ step' = 0
    /\ UNCHANGED <<op, backend, input, cdata, rustVec, heap, log, origin, cli, prev, threads>>

(***************************************************************************)
(* Calls of encode_varint_rust and decode_varint_rust.                     *)
(***************************************************************************)
\* what a decode call does on the C side: the call, and each byte examined
DecodeEvents(data) ==
    IF IsEmpty(data) THEN <<>>
    ELSE <<"decode_varint">>
            \o Repeat("examine", CDecodeVarint(data, LenAsI32(data)).examined)

StartEncode(v, org) ==
    /\ op' = "encode_varint"
    /\ input' = [bytes |-> <<>>, pad |-> 0, value |-> v]
    /\ result' = EncodeVarintRust(v)
    /\ log' = <<"encode_varint">>
    /\ origin' = org
    /\ pc' = "done"
    /\ backend' = "none" /\ cdata' = NoCData /\ rustVec' = <<>> /\ step' = 0
    /\ UNCHANGED heap

EncodeCall(v) ==
    /\ Idle
    /\ StartEncode(v, NoOrigin)
    /\ UNCHANGED <<cli, prev, threads>>

StartDecode(data, org) ==
    /\ op' = "decode_varint"
    /\ input' = [bytes |-> data.bytes, pad |-> data.pad, value |-> U64Zero]
    /\ result' = DecodeVarintRust(data)
    /\ log' = DecodeEvents(data)
    /\ origin' = org
    /\ pc' = "done"
    /\ backend' = "none" /\ cdata' = NoCData /\ rustVec' = <<>> /\ step' = 0
    /\ UNCHANGED heap

DecodeCall(data) ==
    /\ Idle
    /\ StartDecode(data, NoOrigin)
    /\ UNCHANGED <<cli, prev, threads>>

\* decode what encode has just returned, followed by extra bytes
DecodeEncoded(x, pad) ==
    /\ pc = "done" /\ op = "encode_varint" /\ result.ok /\ DirectCaller
    /\ StartDecode([bytes |-> result.bytes \o x, pad |-> pad],
                   [kind |-> "encoded", data |-> input.value, n |-> Len(result.bytes)])
    /\ UNCHANGED <<cli, prev, threads>>

\* decode a proper prefix of what encode has just returned
DecodeTruncated(k) ==
    /\ pc = "done" /\ op = "encode_varint" /\ result.ok /\ DirectCaller
    /\ k < Len(result.bytes)
    /\ StartDecode([bytes |-> Take(result.bytes, k), pad |-> 0],
                   [kind |-> "truncated", data |-> input.value, n |-> Len(result.bytes)])
    /\ UNCHANGED <<cli, prev, threads>>

(***************************************************************************)
(* The command line (src/bin/main.rs): one process per invocation, around  *)
(* one call of a zlib wrapper.  Standard output is not part of the state.  *)
(***************************************************************************)
DigitValue ==
    ("0" :> 0) @@ ("1" :> 1) @@ ("2" :> 2) @@ ("3" :> 3) @@ ("4" :> 4)
        @@ ("5" :> 5) @@ ("6" :> 6) @@ ("7" :> 7) @@ ("8" :> 8) @@ ("9" :> 9)

HexValue ==
    DigitValue @@ ("a" :> 10) @@ ("b" :> 11) @@ ("c" :> 12) @@ ("d" :> 13)
        @@ ("e" :> 14) @@ ("f" :> 15) @@ ("A" :> 10) @@ ("B" :> 11)
        @@ ("C" :> 12) @@ ("D" :> 13) @@ ("E" :> 14) @@ ("F" :> 15)

ParseFailed == [ok |-> FALSE, value |-> U64Zero, bytes |-> <<>>]

\* 10 * v + d on limbs, with the carry out of the top limb
MulAdd10(v, d) ==
    LET t1 == 10 * v[1] + d
        t2 == 10 * v[2] + (t1 \div 65536)
        t3 == 10 * v[3] + (t2 \div 65536)
        t4 == 10 * v[4] + (t3 \div 65536)
    IN  [value |-> <<t1 % 65536, t2 % 65536, t3 % 65536, t4 % 65536>>,
         carry |-> t4 \div 65536]

RECURSIVE ParseDigits(_, _)
ParseDigits(str, acc) ==
    IF str = <<>> THEN [ok |-> TRUE, value |-> acc, bytes |-> <<>>]
    ELSE IF Head(str) \notin DOMAIN DigitValue THEN ParseFailed
    ELSE LET m == MulAdd10(acc, DigitValue[Head(str)])
         IN  IF m.carry > 0 THEN ParseFailed ELSE ParseDigits(Tail(str), m.value)

\* number_str.parse::<u64>(): decimal digits after an optional plus sign
ParseU64(str) ==
    LET digits == IF str # <<>> /\ Head(str) = "+" THEN Tail(str) ELSE str
    IN  IF digits = <<>> THEN ParseFailed ELSE ParseDigits(digits, U64Zero)

RECURSIVE HexPairs(_)
HexPairs(str) ==
    IF str = <<>> THEN <<>>
    ELSE <<16 * HexValue[str[1]] + HexValue[str[2]]>> \o HexPairs(Drop(str, 2))

\* hex::decode(hex_str): an even number of hexadecimal digits
HexDecode(str) ==
    IF Len(str) % 2 # 0 \/ \E i \in 1..Len(str) : str[i] \notin DOMAIN HexValue
    THEN ParseFailed
    ELSE [ok |-> TRUE, value |-> U64Zero, bytes |-> HexPairs(str)]

CliNumbers ==
    { <<>>, <<"0">>, <<"3", "0", "0">>, <<"+", "7">>, <<"-", "1">>, <<"1", "2", "a">>,
      <<"1", "8", "4", "4", "6", "7", "4", "4", "0", "7", "3", "7", "0", "9", "5",
        "5", "1", "6", "1", "5">>,
      <<"1", "8", "4", "4", "6", "7", "4", "4", "0", "7", "3", "7", "0", "9", "5",
        "5", "1", "6", "1", "6">> }

CliHexStrings ==
    { <<>>, <<"0">>, <<"0", "0">>, <<"8", "0">>, <<"8", "0", "0", "1">>,
      <<"c", "9", "6", "1", "0", "1">>, <<"F", "F", "0", "1">>, <<"z", "z">>,
      Repeat("f", 22) }

\* the file named on the command line: unreadable, or its bytes
CliFiles == {[readable |-> FALSE, bytes |-> <<>>]}
                \cup {[readable |-> TRUE, bytes |-> d] : d \in DecompressInputs("Deflate")}

OutputFile(cmd) ==
    IF cmd = "compress" THEN "compressed_output.bin" ELSE "decompressed_output.txt"

ErrorPrefix(cmd) ==
    CASE cmd = "compress"      -> "Compression failed: "
      [] cmd = "decompress"    -> "Decompression failed: "
      [] cmd = "encode-varint" -> "Error encoding varint: "
      [] cmd = "decode-varint" -> "Error decoding varint: "

Running(cmd) == [NoCli EXCEPT !.cmd = cmd, !.status = "running"]

\* the process has exited without calling the library
Exited(cmd, code, line) ==
    [NoCli EXCEPT !.cmd = cmd, !.status = "exited", !.exit = code, !.stderr = line]

CliOrigin == [kind |-> "cli", data |-> <<>>, n |-> 0]

NoCall ==
    UNCHANGED <<op, backend, input, pc, cdata, rustVec, result, heap, step, log,
                origin, prev, threads>>

\* compress [text]
CliCompress(s) ==
    /\ Idle
    /\ IF s = <<>>
       THEN cli' = Exited("compress", 0, <<>>) /\ NoCall
       ELSE /\ Enter("compress", "Deflate", s, CliOrigin, CompressRefusal(s))
            /\ cli' = Running("compress")
            /\ UNCHANGED <<prev, threads>>

\* decompress <file>
CliDecompress(f) ==
    /\ Idle
    /\ IF ~f.readable
       THEN cli' = Exited("decompress", 1, <<"Error reading file", "">>) /\ NoCall
       ELSE /\ StartDecompress("Deflate", f.bytes, CliOrigin)
            /\ cli' = Running("decompress")
            /\ UNCHANGED <<prev, threads>>

\* encode-varint <number>
CliEncodeVarint(str) ==
    /\ Idle
    /\ LET n == ParseU64(str)
       IN  IF ~n.ok
           THEN cli' = Exited("encode-varint", 1, <<"Error: Invalid number format", "">>)
                    /\ NoCall
           ELSE /\ StartEncode(n.value, CliOrigin)
                /\ cli' = Running("encode-varint")
                /\ UNCHANGED <<prev, threads>>

\* decode-varint <hex_bytes>
CliDecodeVarint(str) ==
    /\ Idle
    /\ LET h == HexDecode(str)
       IN  IF ~h.ok
           THEN cli' = Exited("decode-varint", 1, <<"Error: Invalid hex string", "">>)
                    /\ NoCall
           ELSE /\ StartDecode([bytes |-> h.bytes, pad |-> 0], CliOrigin)
                /\ cli' = Running("decode-varint")
                /\ UNCHANGED <<prev, threads>>

\* a process that always ends with status 0
CliExitCodeZero(res) == 0

\* Err(e) => { eprintln!(..); std::process::exit(1) }
CliExitCode(res) == IF res.ok THEN 0 ELSE 1

\* the match on the library's result: on Ok the output file is written (when
\* the file system allows it; otherwise main returns the error), on Err the
\* message goes to the error stream and the process exits
CliExit ==
    /\ cli.status = "running" /\ pc = "done"
    /\ \E writable \in BOOLEAN :
        cli' = IF ~result.ok
               THEN [cli EXCEPT !.status = "exited", !.exit = CliExitCode(result),
                                !.stderr = <<ErrorPrefix(cli.cmd), result.err>>]
               ELSE IF cli.cmd \in {"compress", "decompress"} /\ ~writable
               THEN [cli EXCEPT !.status = "exited", !.exit = 1,
                                !.stderr = <<"Error: ", "write failed">>]
               ELSE [cli EXCEPT !.status = "exited", !.exit = CliExitCode(result),
                                !.written = IF cli.cmd \in {"compress", "decompress"}
                                            THEN {OutputFile(cli.cmd)} ELSE {}]
    /\ NoCall

\* the caller is done with the result (or the process has exited); the next
\* call starts afresh
StartAfresh ==
    /\ \/ pc = "done" /\ cli.status # "running"
       \/ pc = "idle" /\ cli.status = "exited"
    /\ pc' = "idle"
    /\ op' = "none" /\ backend' = "none" /\ input' = NoInput
    /\ cdata' = NoCData /\ rustVec' = <<>> /\ result' = NoResult
    /\ step' = 0 /\ log' = <<>> /\ origin' = NoOrigin
    /\ cli' = NoCli
    /\ UNCHANGED heap

Return ==
    /\ StartAfresh
    /\ prev' = IF prev.op = "none" THEN prev ELSE [prev EXCEPT !.others = TRUE]
    /\ UNCHANGED threads

\* the same, the caller keeping the call and its result to compare a later
\* call with
Remember ==
    /\ op \in {"compress", "encode_varint"} /\ DirectCaller
    /\ StartAfresh
    /\ prev' = [op |-> op, backend |-> backend, input |-> input, result |-> result,
                others |-> FALSE]
    /\ UNCHANGED threads

Next ==
    \/ \E B \in Backends, s \in Texts : CompressEnter(B, s)
    \/ \E B \in Backends : \E d \in DecompressInputs(B) : DecompressEnter(B, d)
    \/ DecompressRoundTrip
    \/ DecompressCorrupted
    \/ RawCall
    \/ NullCheck
    \/ CopyOut
    \/ Release
    \/ Finish
    \/ \E v \in Values : EncodeCall(v)
    \/ \E d \in Slices(ContRuns) : DecodeCall(d)
    \/ \E x \in Extras, pad \in Pads : DecodeEncoded(x, pad)
    \/ \E k \in 1..9 : DecodeTruncated(k)
    \/ \E s \in Texts : CliCompress(s)
    \/ \E f \in CliFiles : CliDecompress(f)
    \/ \E str \in CliNumbers : CliEncodeVarint(str)
    \/ \E str \in CliHexStrings : CliDecodeVarint(str)
    \/ CliExit
    \/ Return

Spec == Init /\ [][Next]_vars

\* a wrapper that has been called runs on: its statements are sequential
\* code with no wait in it
FairSpec ==
    Spec /\ WF_vars(RawCall) /\ WF_vars(NullCheck) /\ WF_vars(CopyOut)
         /\ WF_vars(Release) /\ WF_vars(Finish)

(***************************************************************************)
(* Repeated calls: a caller keeps one call of compress or encode_varint    *)
(* with its result, makes other calls, and repeats it.                     *)
(***************************************************************************)
\* longest text of a repeated call
MaxRepeatLen == 2

RepeatTexts == {s \in Texts : Len(s) <= MaxRepeatLen}

RepeatValues == {U64Zero, U64OfSmall(300), U64Pow2(63), U64Max}

RepeatNext ==
    \/ \E B \in Backends, s \in RepeatTexts : CompressEnter(B, s)
    \/ \E B \in Backends : \E d \in SeqsUpTo({1, 255}, 2) : DecompressEnter(B, d)
    \/ DecompressRoundTrip
    \/ RawCall
    \/ NullCheck
    \/ CopyOut
    \/ Release
    \/ Finish
    \/ \E v \in RepeatValues : EncodeCall(v)
    \/ Return
    \/ Remember

RepeatSpec == Init /\ [][RepeatNext]_vars

(***************************************************************************)
(* Calls on separate threads: each thread runs the statements of a wrapper *)
(* on its own locals; the foreign allocator is the one thing the threads   *)
(* have in common.  A step of a thread is a step of the program.           *)
(***************************************************************************)
ThreadTexts == {<<65>>, <<65, 0>>}

ThreadContainers(B) == {CCompressString(B, <<255>>).bytes, <<255, 255, 1>>}

\* everything but the threads and the allocator
callerVars == <<op, backend, input, pc, cdata, rustVec, result, step, log, origin,
                cli, prev>>

ThreadEnter(t, o, B, d, refusal) ==
    /\ threads' = [threads EXCEPT ![t] =
            [IdleThread EXCEPT
                !.op = o, !.backend = B, !.input = d,
                !.pc = IF refusal = "" THEN "call" ELSE "done",
                !.result = IF refusal = "" THEN NoResult ELSE Err(Msg(B, refusal))]]
    /\ UNCHANGED <<heap, callerVars>>

ThreadCompressEnter(t, B, s) ==
    /\ threads[t].pc = "idle"
    /\ ThreadEnter(t, "compress", B, s, CompressRefusal(s))

ThreadDecompressEnter(t, B, d) ==
    /\ threads[t].pc = "idle"
    /\ ThreadEnter(t, "decompress", B, d, DecompressEntry(B, d))

\* unsafe { compress_string(..) } / unsafe { decompress_data(..) }
ThreadRawCall(t) ==
    LET me == threads[t]
        r  == IF me.op = "compress"
              THEN CCompressString(me.backend, Take(me.input, InputLen(me.input)))
              ELSE CDecompressData(me.backend, me.input)
        p  == IF r.isNull THEN NullPtr ELSE Malloc(heap)
    IN  /\ me.pc = "call"
        /\ heap' = IF p = NullPtr THEN heap
                   ELSE [heap EXCEPT ![p] = [live |-> TRUE, data |-> r.bytes]]
        /\ threads' = [threads EXCEPT ![t] =
                [me EXCEPT
                    !.pc = "check",
                    !.cdata = [buffer |-> p,
                               length |-> IF p = NullPtr THEN 0 ELSE Len(r.bytes)],
                    !.log = me.log \o <<"raw_call">> \o r.events
                                \o (IF p = NullPtr THEN <<>> ELSE <<"alloc">>)]]
        /\ UNCHANGED callerVars

\* if buffer.is_null() { return Err(..) }
ThreadNullCheck(t) ==
    LET me == threads[t]
    IN  /\ me.pc = "check"
        /\ threads' = [threads EXCEPT ![t] =
                IF BufferIsNull(me.cdata)
                THEN [me EXCEPT
                        !.pc = OnNull,
                        !.result = Err(Msg(me.backend,
                                           IF me.op = "compress" THEN "CompressFailure"
                                           ELSE "DecompressFailure"))]
                ELSE [me EXCEPT !.pc = "bridge", !.step = 1]]
        /\ UNCHANGED <<heap, callerVars>>

ThreadAtStep(t, name) ==
    threads[t].pc = "bridge" /\ BridgeSteps[threads[t].step] = name

\* slice::from_raw_parts(buffer, length).to_vec()
ThreadCopyOut(t) ==
    LET me == threads[t]
    IN  /\ ThreadAtStep(t, "copy")
        /\ \E v \in ForeignRead(heap, me.cdata.buffer, me.cdata.length) :
                threads' = [threads EXCEPT ![t] =
                    [me EXCEPT !.rustVec = v, !.log = Append(me.log, "copy"),
                               !.step = me.step + 1]]
        /\ UNCHANGED <<heap, callerVars>>

\* unsafe { free_compressed_data(..) } / unsafe { free_decompressed_data(..) }
ThreadRelease(t) ==
    LET me == threads[t]
    IN  /\ ThreadAtStep(t, "free")
        /\ heap' = Free(heap, me.cdata.buffer)
        /\ threads' = [threads EXCEPT ![t] =
                [me EXCEPT !.log = Append(me.log, "free"), !.step = me.step + 1]]
        /\ UNCHANGED callerVars

\* Ok(rust_vec), or String::from_utf8(rust_vec) for decompress
ThreadFinish(t) ==
    LET me == threads[t]
    IN  /\ ThreadAtStep(t, "finish")
        /\ threads' = [threads EXCEPT ![t] =
                [me EXCEPT
                    !.pc = "done", !.step = 0,
                    !.result = IF me.op = "compress" THEN Ok(me.rustVec, NoValue, 0)
                               ELSE StringFromUtf8(me.rustVec,
                                                   Msg(me.backend, "InvalidUtf8"))]]
        /\ UNCHANGED <<heap, callerVars>>

\* the thread is done with the result
ThreadReturn(t) ==
    /\ threads[t].pc = "done"
    /\ threads' = [threads EXCEPT ![t] = IdleThread]
    /\ UNCHANGED <<heap, callerVars>>

ThreadNext ==
    \/ \E t \in Threads, B \in Backends, s \in ThreadTexts : ThreadCompressEnter(t, B, s)
    \/ \E t \in Threads, B \in Backends :
            \E d \in ThreadContainers(B) : ThreadDecompressEnter(t, B, d)
    \/ \E t \in Threads : ThreadRawCall(t)
    \/ \E t \in Threads : ThreadNullCheck(t)
    \/ \E t \in Threads : ThreadCopyOut(t)
    \/ \E t \in Threads : ThreadRelease(t)
    \/ \E t \in Threads : ThreadFinish(t)
    \/ \E t \in Threads : ThreadReturn(t)

ThreadSpec == Init /\ [][ThreadNext]_vars

(***************************************************************************)
(* Properties.                                                             *)
(***************************************************************************)
AllContinuation(bytes, n) == \A i \in 1..n : bytes[i] >= 128

Finished(o) == op = o /\ pc = "done"

\* C1: varint round trip: encode_varint succeeds for every value, and
\* decoding exactly the bytes it returned succeeds with the value and with
\* the number of bytes encode returned.
VarintRoundTrip ==
    /\ Finished("encode_varint") => result.ok
    /\ (Finished("decode_varint") /\ origin.kind = "encoded"
            /\ input.pad = 0 /\ Len(input.bytes) = origin.n)
        => /\ result.ok
           /\ result.value = origin.data
           /\ result.consumed = origin.n

VarintRoundTripWitness ==
    /\ Finished("decode_varint") /\ origin.kind = "encoded"
    /\ input.pad = 0 /\ Len(input.bytes) = origin.n
    /\ origin.data = U64Max /\ result.value = U64Max /\ result.consumed = 10

\* C2: container round trip: on every backend compress succeeds for every
\* text without a zero byte, and decompress of what it returned gives back
\* exactly the text.
ContainerRoundTrip ==
    /\ (Finished("compress") /\ ~Contains(input.bytes, 0)) => result.ok
    /\ (Finished("decompress") /\ origin.kind = "roundtrip")
        => result.ok /\ result.bytes = origin.data

ContainerRoundTripWitness ==
    /\ Finished("decompress") /\ origin.kind = "roundtrip"
    /\ backend = "Block" /\ origin.data = <<65, 195, 169>>
    /\ result.ok /\ result.bytes = <<65, 195, 169>>

\* C3: release exactly once: a call never releases more often than the
\* backend returned a buffer, releases only after the bytes were copied, and
\* has released as often as it was given a buffer once it has returned.
ReleaseExactlyOnce ==
    /\ Count(log, "free") <= Count(log, "alloc")
    /\ \A i \in 1..Len(log) :
            log[i] = "free" => \E j \in 1..(i - 1) : log[j] = "copy"
    /\ pc = "done" => Count(log, "free") = Count(log, "alloc")

ReleaseExactlyOnceWitness ==
    /\ Finished("decompress")
    /\ result.err = Msg(backend, "InvalidUtf8")
    /\ Count(log, "alloc") = 1 /\ Count(log, "free") = 1

\* C4: between calls (before a call starts and once it has returned,
\* whatever it returned) no foreign buffer is live.
NoLiveBufferBetweenCalls == AtRest => LivePtrs(heap) = {}

NoLiveBufferBetweenCallsWitness ==
    /\ Finished("compress") /\ result.ok
    /\ Count(log, "alloc") = 1 /\ LivePtrs(heap) = {}

ZeroByteRejectedFirst ==
    (op = "compress" /\ Contains(input.bytes, 0))
        => /\ pc = "done"
           /\ result = Err(Msg(backend, "InvalidInput"))
           /\ log = <<>>
           /\ cdata = NoCData

ZeroByteRejectedFirstWitness ==
    Finished("compress") /\ input.bytes = <<0>> /\ ~result.ok

\* C7: decompress of an input of 0 bytes or 1 byte returns the
\* EmptyInput / InputTooSmall error at once: neither the varint decoder nor
\* the backend is invoked.
ShortInputRejectedFirst ==
    (op = "decompress" /\ Len(input.bytes) < 2)
        => /\ pc = "done"
           /\ result = Err(Msg(backend, IF input.bytes = <<>> THEN "EmptyInput"
                                        ELSE "InputTooSmall"))
           /\ log = <<>>

ShortInputRejectedFirstWitness ==
    Finished("decompress") /\ Len(input.bytes) = 1 /\ ~result.ok

\* C8: extra-data tolerance: decoding an encoded value followed by any
\* bytes, of any number, succeeds with the value and the number of bytes
\* encode returned.
ExtraDataTolerated ==
    (Finished("decode_varint") /\ origin.kind = "encoded")
        => /\ result.ok
           /\ result.value = origin.data
           /\ result.consumed = origin.n

\* C9: truncation: decoding a proper prefix of an encoding of two or more
\* bytes fails, and so does decoding any input of 1 to 10 bytes that all
\* have the continuation bit.
TruncatedVarintFails ==
    /\ (Finished("decode_varint") /\ origin.kind = "truncated")
        => result = Err("Failed to decode varint")
    /\ (Finished("decode_varint") /\ input.pad = 0
            /\ Len(input.bytes) \in 1..10
            /\ AllContinuation(input.bytes, Len(input.bytes)))
        => result = Err("Failed to decode varint")

TruncatedVarintFailsWitness ==
    /\ Finished("decode_varint") /\ origin.kind = "truncated"
    /\ origin.data = U64Max /\ Len(input.bytes) = 9 /\ ~result.ok

\* C10: overflow: decoding a buffer whose first 11 bytes all have the
\* continuation bit fails, after looking at no more than 10 bytes.
OverlongVarintFails ==
    (Finished("decode_varint") /\ Len(input.bytes) >= 11
            /\ AllContinuation(input.bytes, 11))
        => /\ result = Err("Failed to decode varint")
           /\ Count(log, "examine") <= 10

OverlongVarintFailsWitness ==
    /\ Finished("decode_varint") /\ input.pad = 0
    /\ input.bytes = Repeat(255, 11)
    /\ ~result.ok /\ Count(log, "examine") = 10

(***************************************************************************)
(* The reference little-endian base-128 encoding, bit by bit.              *)
(***************************************************************************)
\* bit j of a u64 (0 beyond bit 63)
Bit(v, j) == IF j > 63 THEN 0 ELSE (v[(j \div 16) + 1] \div Pow2(j % 16)) % 2

\* bits 7k .. 7k+6 of v as a number below 128
Chunk7(v, k) ==
    Bit(v, 7 * k) + 2 * Bit(v, 7 * k + 1) + 4 * Bit(v, 7 * k + 2)
        + 8 * Bit(v, 7 * k + 3) + 16 * Bit(v, 7 * k + 4)
        + 32 * Bit(v, 7 * k + 5) + 64 * Bit(v, 7 * k + 6)

\* the position of the highest set bit, plus one; 0 for 0
BitLength(v) ==
    IF v = U64Zero THEN 0
    ELSE 1 + CHOOSE j \in 0..63 :
                Bit(v, j) = 1 /\ \A h \in (j + 1)..63 : Bit(v, h) = 0

\* max(1, ceil(bitlength / 7))
RefLen(v) == IF v = U64Zero THEN 1 ELSE (BitLength(v) + 6) \div 7

ReferenceEncoding(v) ==
    [k \in 1..RefLen(v) |-> Chunk7(v, k - 1) + (IF k < RefLen(v) THEN 128 ELSE 0)]

\* the pairs of test_varint_encoding_basic / test_varint_decoding_basic
BasicCases ==
    { <<0, <<0>>>>, <<1, <<1>>>>, <<127, <<127>>>>, <<128, <<128, 1>>>>,
      <<255, <<255, 1>>>>, <<256, <<128, 2>>>>, <<16383, <<255, 127>>>>,
      <<16384, <<128, 128, 1>>>> }

\* bit j of the value that the first n bytes spell: bit j % 7 of byte j / 7
SpelledBit(bytes, n, j) ==
    IF j \div 7 < n THEN (bytes[(j \div 7) + 1] \div Pow2(j % 7)) % 2 ELSE 0

RECURSIVE SpelledLimb(_, _, _, _)
SpelledLimb(bytes, n, i, b) ==
    IF b > 15 THEN 0
    ELSE SpelledBit(bytes, n, 16 * (i - 1) + b) * Pow2(b)
            + SpelledLimb(bytes, n, i, b + 1)

\* the sum of (byte_i AND 0x7F) << 7i over the first n bytes, as a u64
SpelledValue(bytes, n) == [i \in 1..4 |-> SpelledLimb(bytes, n, i, 0)]

\* the first byte without the continuation bit is the n-th
TerminatesAt(bytes, n) ==
    /\ n \in 1..Len(bytes)
    /\ bytes[n] < 128
    /\ \A i \in 1..(n - 1) : bytes[i] >= 128

\* C11: encode_varint returns the reference encoding of every value: byte k
\* holds bits 7k..7k+6, with bit 7 set on every byte but the last; the
\* eight listed values give the eight listed byte sequences.
EncodeMatchesReference ==
    Finished("encode_varint")
        => /\ result = Ok(ReferenceEncoding(input.value), NoValue, 0)
           /\ \A c \in BasicCases :
                  input.value = U64OfSmall(c[1]) => result.bytes = c[2]

EncodeMatchesReferenceWitness ==
    /\ Finished("encode_varint")
    /\ input.value = U64OfSmall(16384)
    /\ result.bytes = <<128, 128, 1>>

\* C12: minimality: the encoding of V has max(1, ceil(bitlength(V)/7))
\* bytes, between 1 and 10: one byte up to 127, two for 128..16383, ten
\* when bit 63 is set; it is never empty and its last byte is never a zero
\* the value does not need.
EncodingMinimal ==
    Finished("encode_varint")
        => LET n == Len(result.bytes)
               v == input.value
           IN  /\ result.ok
               /\ n = RefLen(v)
               /\ n \in 1..10
               /\ (v[2] = 0 /\ v[3] = 0 /\ v[4] = 0 /\ v[1] <= 127) => n = 1
               /\ (v[2] = 0 /\ v[3] = 0 /\ v[4] = 0 /\ v[1] \in 128..16383) => n = 2
               /\ Bit(v, 63) = 1 => n = 10
               /\ n > 1 => result.bytes[n] # 0
               /\ result.bytes[n] < 128

EncodingMinimalWitness ==
    /\ Finished("encode_varint")
    /\ input.value = U64Pow2(63)
    /\ Len(result.bytes) = 10 /\ result.bytes[10] = 1

\* C13: decoding any input whose first byte without the continuation bit is
\* the n-th, n from 1 to 10, succeeds with the value the first n bytes spell
\* and with n as the number of bytes consumed.
TerminatedVarintDecodes ==
    \A n \in 1..10 :
        (Finished("decode_varint") /\ TerminatesAt(input.bytes, n))
            => /\ result.ok
               /\ result.value = SpelledValue(input.bytes, n)
               /\ result.consumed = n

\* C14: decode_varint of the empty sequence returns the empty-input error
\* without calling the native decoder.
EmptyVarintRejectedFirst ==
    (Finished("decode_varint") /\ input.pad = 0 /\ input.bytes = <<>>)
        => result = Err("Empty input data") /\ log = <<>>

EmptyVarintRejectedFirstWitness ==
    /\ Finished("decode_varint") /\ input.pad = 0 /\ input.bytes = <<>>
    /\ ~result.ok /\ origin.kind = "none"

\* C15: a non-null buffer whose bytes are not valid UTF-8 makes decompress
\* return the InvalidUtf8 error; a text that decompress returns is valid
\* UTF-8 and is exactly the bytes of the buffer the backend returned.
Utf8ValidatedExactly ==
    Finished("decompress")
        => LET buf == CDecompressData(backend, input.bytes).bytes
           IN  /\ (Count(log, "alloc") = 1 /\ ~ValidUtf8(buf))
                    => result = Err(Msg(backend, "InvalidUtf8"))
               /\ result.ok
                    => /\ Count(log, "alloc") = 1
                       /\ ValidUtf8(result.bytes)
                       /\ result.bytes = buf

Utf8ValidatedExactlyWitness ==
    /\ Finished("decompress") /\ backend = "Deflate"
    /\ Count(log, "alloc") = 1
    /\ CDecompressData(backend, input.bytes).bytes = <<65, 255>>
    /\ result = Err("Decompressed data is not valid UTF-8")

NoUseAfterRelease ==
    /\ \A i \in 1..Len(log) : \A j \in (i + 1)..Len(log) :
            log[i] = "free" => log[j] \notin {"copy", "free"}
    /\ Count(log, "free") > 0 => (pc = "done" \/ AtStep("finish"))
    /\ AtStep("copy") => cdata.buffer \in LivePtrs(heap)

NoUseAfterReleaseWitness ==
    /\ Finished("decompress") /\ backend = "Deflate" /\ result.ok
    /\ Len(log) >= 2
    /\ log[Len(log) - 1] = "copy" /\ log[Len(log)] = "free"
    /\ cdata.buffer \notin LivePtrs(heap)

(***************************************************************************)
(* The errors the wrappers can return.                                     *)
(***************************************************************************)
ErrorKinds ==
    {"InvalidInput", "CompressFailure", "EmptyInput", "InputTooSmall",
     "DecompressFailure", "InvalidUtf8"}

ContainerErrors(B) == {Msg(B, k) : k \in ErrorKinds}

VarintErrors ==
    {"Invalid bytes written by encode_varint", "Empty input data",
     "Failed to decode varint", "Invalid bytes read count"}

\* what a call that has returned has returned: a value of the right shape,
\* or one of the wrapper's errors
TypedResult ==
    pc = "done"
        => IF result.ok
           THEN CASE op = "decode_varint" ->
                        /\ result.consumed \in 1..10
                        /\ input.pad = 0 => result.consumed <= Len(input.bytes)
                  [] op = "encode_varint" -> Len(result.bytes) \in 1..10
                  [] op = "decompress" -> ValidUtf8(result.bytes)
                  [] OTHER -> TRUE
           ELSE IF op \in {"compress", "decompress"}
                THEN result.err \in ContainerErrors(backend)
                ELSE result.err \in VarintErrors

\* what a call reads lies inside what it was given: the decoder looks at no
\* byte past the slice, the copy covers exactly the live foreign buffer
InBounds ==
    /\ (op = "decode_varint" /\ input.pad = 0)
            => Count(log, "examine") <= Len(input.bytes)
    /\ AtStep("copy")
            => /\ cdata.buffer \in LivePtrs(heap)
               /\ cdata.length = Len(heap[cdata.buffer].data)

InCall == pc \in {"call", "check", "bridge"}

\* C16: on every input, decompress (all backends) and decode_varint
\* terminate and return Ok or one of the typed errors, and stay in bounds
\* while they run.
AlwaysReturnsTyped ==
    /\ [](TypedResult /\ InBounds)
    /\ InCall ~> (pc = "done")

AlwaysReturnsTypedWitness ==
    /\ Finished("decompress") /\ origin.kind = "none" /\ backend = "Block"
    /\ input.bytes = <<255, 255, 255>>
    /\ result = Err("LZ4 Decompression failed in C library (null buffer returned)")

CliFailureExitsNonZero ==
    (cli.cmd # "none" /\ origin.kind = "cli" /\ pc = "done" /\ ~result.ok)
        => /\ cli.written = {}
           /\ cli.status = "exited"
                => /\ cli.exit # 0
                   /\ cli.stderr = <<ErrorPrefix(cli.cmd), result.err>>

CliFailureExitsNonZeroWitness ==
    /\ cli.cmd = "decompress" /\ cli.status = "exited" /\ cli.exit = 1
    /\ origin.kind = "cli" /\ pc = "done"
    /\ result = Err("Decompression failed")
    /\ cli.written = {}

\* the header cannot be decoded: the continuation bit is set on every byte
\* of an input of at most 10 bytes, or on each of the first 11 bytes
HeaderFails(bytes) ==
    \/ Len(bytes) <= 10 /\ AllContinuation(bytes, Len(bytes))
    \/ Len(bytes) >= 11 /\ AllContinuation(bytes, 11)

HeaderIsByteLength ==
    (Finished("compress") /\ result.ok)
        => LET n   == Len(input.bytes)
               hdr == DecodeVarintRust([bytes |-> result.bytes, pad |-> 0])
           IN  /\ hdr.ok
               /\ hdr.value = U64OfSmall(n)
               /\ hdr.consumed = Len(EncodeVarintRust(U64OfSmall(n)).bytes)
               /\ n <= 127 => hdr.consumed = 1
               /\ n \in 128..16383 => hdr.consumed = 2
               /\ Len(result.bytes) >= hdr.consumed + 1

HeaderIsByteLengthWitness ==
    /\ Finished("compress") /\ backend = "Block" /\ result.ok
    /\ input.bytes = Repeat(65, 128)
    /\ Take(result.bytes, 2) = <<128, 1>>

AtMostOneBackendCall ==
    op \in {"compress", "decompress"}
        => /\ Count(log, "raw_call") <= 1
           /\ Count(log, "raw_compress") + Count(log, "raw_decompress") <= 1
           /\ Count(log, "alloc") <= 1
           /\ (pc = "done" /\ Count(log, "raw_call") = 1 /\ cdata.buffer = NullPtr)
                => ~result.ok

AtMostOneBackendCallWitness ==
    /\ Finished("decompress") /\ backend = "Deflate"
    /\ log = <<"raw_call", "decode_varint", "raw_decompress">>
    /\ cdata.buffer = NullPtr /\ ~result.ok

DeclaredLength(bytes) ==
    SmallOrHuge(CDecodeVarint([bytes |-> bytes, pad |-> 0], Len(bytes)).value)

\* C27: on the Block backend the declared length is a bound: the foreign
\* buffer and the text decompress returns are never longer than the length
\* the header declares, and the header 10 followed by the byte 0x01 returns
\* the decompression error.
SizeHintAuthoritative ==
    (op = "decompress" /\ backend = "Block")
        => /\ cdata.buffer # NullPtr
                => /\ cdata.length <= DeclaredLength(input.bytes)
                   /\ Len(rustVec) <= DeclaredLength(input.bytes)
           /\ (pc = "done" /\ result.ok)
                => Len(result.bytes) <= DeclaredLength(input.bytes)
           /\ (pc = "done" /\ input.bytes = <<10, 1>>)
                => result = Err(Msg("Block", "DecompressFailure"))

SizeHintAuthoritativeWitness ==
    /\ Finished("decompress") /\ backend = "Block"
    /\ input.bytes = <<10, 1>>
    /\ log = <<"raw_call", "decode_varint", "raw_decompress">>
    /\ result = Err("LZ4 Decompression failed in C library (null buffer returned)")

\* the first n bytes of a slice
FirstBytes(data, n) == [i \in 1..n |-> ByteAt(data, i - 1)]

\* a terminated sequence of n bytes that the encoder could have emitted: no
\* zero byte at its end unless it is the only byte, no bit beyond bit 63
MinimalSequence(first, n) ==
    /\ n = 1 \/ first[n] # 0
    /\ n = 10 => first[10] <= 1

\* C28 as stated: whenever decode_varint succeeds with (V, n), the first n
\* bytes of the input are encode_varint(V).
CanonicalDecoding ==
    (Finished("decode_varint") /\ result.ok)
        => FirstBytes(input, result.consumed) = EncodeVarintRust(result.value).bytes

\* C28, amended: whenever decode_varint succeeds with (V, n), the first n
\* bytes are the first terminated sequence of the input and V is the low 64
\* bits of what they spell; they are encode_varint(V) exactly when the
\* sequence is minimal.  The non-minimal [0x80, 0x00] is accepted, as 0 with
\* 2 bytes consumed.
DecodingAcceptsNonMinimal ==
    (Finished("decode_varint") /\ result.ok)
        => LET n     == result.consumed
               first == FirstBytes(input, n)
           IN  /\ n \in 1..10
               /\ TerminatesAt(first, n)
               /\ result.value = SpelledValue(first, n)
               /\ first = EncodeVarintRust(result.value).bytes
                    <=> MinimalSequence(first, n)
               /\ (input.bytes = <<128, 0>> /\ input.pad = 0)
                    => result.value = U64Zero /\ n = 2

DecodingAcceptsNonMinimalWitness ==
    /\ Finished("decode_varint")
    /\ input.bytes = <<128, 0>> /\ input.pad = 0
    /\ result = Ok(<<>>, U64Zero, 2)
    /\ EncodeVarintRust(U64Zero).bytes = <<0>>

\* C29 as stated: a 10-byte input with the continuation bit on its first
\* nine bytes and a terminating tenth byte that has one of its bits 1..6
\* set, a number of 2^64 or more, is answered with an error.
NoDroppedBits ==
    (Finished("decode_varint") /\ input.pad = 0 /\ Len(input.bytes) = 10
        /\ TerminatesAt(input.bytes, 10) /\ input.bytes[10] >= 2)
        => ~result.ok

\* C30 as stated: the limit handed to the native decoder is the length of
\* the input whatever that length is, and an input that starts with a
\* terminated varint of n bytes decodes with n bytes consumed.
LimitIsTrueLength ==
    (Finished("decode_varint") /\ ~IsEmpty(input))
        => /\ LenAsI32(input) >= Len(input.bytes)
           /\ (LenAsI32(input) - Len(input.bytes)) \div 65536 = input.pad
           /\ \A n \in 1..10 :
                TerminatesAt(input.bytes, n) => result.ok /\ result.consumed = n

\* what a call of compress or decompress returns when nothing else runs
ResultAlone(o, B, d) ==
    IF o = "compress"
    THEN IF CompressRefusal(d) # "" THEN Err(Msg(B, CompressRefusal(d)))
         ELSE Ok(CCompressString(B, d).bytes, NoValue, 0)
    ELSE IF DecompressEntry(B, d) # "" THEN Err(Msg(B, DecompressEntry(B, d)))
    ELSE LET r == CDecompressData(B, d)
         IN  IF r.isNull THEN Err(Msg(B, "DecompressFailure"))
             ELSE StringFromUtf8(r.bytes, Msg(B, "InvalidUtf8"))

\* the thread has a foreign buffer it has not released yet
Holding(t) ==
    Count(threads[t].log, "alloc") > Count(threads[t].log, "free")

\* C25: calls on separate threads, their steps interleaved in any order: a
\* call returns what it returns when run alone; a foreign buffer belongs to
\* the one call that acquired it, keeps its bytes until that call releases
\* it, and is released once, by that call; nothing else is live.
ConcurrentIndependence ==
    /\ \A t \in Threads :
        LET me == threads[t]
        IN  /\ me.pc = "done" => me.result = ResultAlone(me.op, me.backend, me.input)
            /\ Count(me.log, "alloc") <= 1
            /\ Count(me.log, "free") <= Count(me.log, "alloc")
            /\ me.pc \in {"idle", "done"} => ~Holding(t)
            /\ Holding(t)
                => /\ me.cdata.buffer \in LivePtrs(heap)
                   /\ Len(heap[me.cdata.buffer].data) = me.cdata.length
                   /\ \A u \in Threads \ {t} :
                        Holding(u) => threads[u].cdata.buffer # me.cdata.buffer
    /\ LivePtrs(heap) = {threads[t].cdata.buffer : t \in {u \in Threads : Holding(u)}}

ConcurrentIndependenceWitness ==
    /\ threads[1].pc = "done" /\ threads[1].op = "compress" /\ threads[1].result.ok
    /\ threads[2].pc = "done" /\ threads[2].op = "decompress"
    /\ threads[2].result = Err("LZ4 Decompressed data is not valid UTF-8")
    /\ threads[1].cdata.buffer = 2 /\ threads[2].cdata.buffer = 1
    /\ Count(threads[1].log, "free") = 1 /\ Count(threads[2].log, "free") = 1
    /\ LivePtrs(heap) = {}

====
